---- MODULE Spec2Model ----
(***************************************************************************)
(* Model of the auth0-connections Terraform provider: the resource         *)
(* auth0-connections_application_connections (Create / Update / Delete)    *)
(* and its reconciliation engine applyConnectionState, over the Auth0      *)
(* Management API (POST /oauth/token, GET /connections, GET and PATCH      *)
(* /connections/{id}).  Every remote call is one step of the model.        *)
(***************************************************************************)
EXTENDS Integers, Sequences, FiniteSets, TLC

(* ------------------------------ bounds -------------------------------- *)
\* longest enabled_clients list a connection holds in an initial tenant
MaxLen == 2
\* longest enabled_connection_ids list in a plan
MaxWant == 2

\* application (client) IDs of the tenant
Apps == {"app1", "app2"}
\* the connection IDs the list GET returns, in listing order
Listing == <<"c1", "c2">>
\* connection IDs a plan can name although the list GET does not return them
Unlisted == {"c3"}
\* resource instances (callers); Spec runs the first one only
Procs == {1, 2}
Sequential == {1}

(* ------------------------------ helpers ------------------------------- *)
Range(s) == {s[i] : i \in 1..Len(s)}
Conns == Range(Listing)
WantIds == Conns \cup Unlisted
SeqsUpTo(S, n) == UNION {[1..k -> S] : k \in 0..n}
PlanLists == SeqsUpTo(WantIds, MaxWant)
Count(a, s) == Cardinality({i \in 1..Len(s) : s[i] = a})
SameMultiset(s, t) == \A a \in Apps : Count(a, s) = Count(a, t)

\* outcomes of one HTTP round trip: 200 with a decodable body, a transport
\* error (client.Do fails), a non-200 status, a 200 with an undecodable body
HttpOutcomes == {"ok", "transport", "non200", "decode"}
\* the PATCH response body is never decoded
PatchOutcomes == {"ok", "transport", "non200"}

NoErr == [step |-> "", conn |-> "", cause |-> ""]
Error(step, conn, cause) == [step |-> step, conn |-> conn, cause |-> cause]

(* --------------------------- pure functions --------------------------- *)
\* byte-wise order of Go strings, on the application IDs of the model
StringLess(a, b) ==
    LET rank(x) == CASE x = "app1" -> 1 [] x = "app2" -> 2 [] OTHER -> 3
    IN  rank(a) < rank(b)

RECURSIVE Insert(_, _)
Insert(a, s) ==
    IF s = <<>> THEN <<a>>
    ELSE IF StringLess(s[1], a) THEN <<s[1]>> \o Insert(a, Tail(s))
    ELSE <<a>> \o s

\* mutant: the slice is left in the order it was built
SortStrings_Unsorted(s) == s

RECURSIVE SortStrings(_)
\* sort.Strings: the slice in ascending order
SortStrings(s) == IF s = <<>> THEN <<>> ELSE Insert(s[1], SortStrings(Tail(s)))

\* mutant: the slices are compared as sets
stringSlicesEqual_AsSets(a, b) == Range(a) = Range(b)

\* stringSlicesEqual: same length and same element at every index
stringSlicesEqual(a, b) ==
    /\ Len(a) = Len(b)
    /\ \A i \in 1..Len(a) : a[i] = b[i]

\* the set built from the plan's enabled_connection_ids
EnabledSet(enabledConnectionIds) == Range(enabledConnectionIds)

\* mutant: the application is never appended
NewClients_NeverAdd(current, applicationId, enabled) ==
    SelectSeq(current, LAMBDA clientId : clientId # applicationId)

\* mutant: the application is appended without being filtered out first
NewClients_AppendOnly(current, applicationId, enabled) ==
    current \o (IF enabled THEN <<applicationId>> ELSE <<>>)

\* mutant: the filter keeps the application instead of the others
NewClients_KeepOnlyApp(current, applicationId, enabled) ==
    SelectSeq(current, LAMBDA clientId : clientId = applicationId)
        \o (IF enabled THEN <<applicationId>> ELSE <<>>)

\* mutant: the other clients are kept once each
NewClients_Dedup(current, applicationId, enabled) ==
    LET others == Range(current) \ {applicationId}
        kept == CHOOSE q \in [1..Cardinality(others) -> others] : Range(q) = others
    IN  kept \o (IF enabled THEN <<applicationId>> ELSE <<>>)

\* all clients except our application, then our application if the
\* connection should be enabled
NewClients(current, applicationId, enabled) ==
    SelectSeq(current, LAMBDA clientId : clientId # applicationId)
        \o (IF enabled THEN <<applicationId>> ELSE <<>>)

\* mutant: an undecodable token response is not reported
getAccessToken_IgnoreDecode(outcome, issued) ==
    IF outcome \in {"ok", "decode"} THEN [token |-> issued, err |-> NoErr]
    ELSE [token |-> 0, err |-> Error("token", "", outcome)]

\* mutant: the first token issued is kept and used by every call
getAccessToken_Cached(outcome, issued) ==
    IF outcome = "ok" THEN [token |-> 1, err |-> NoErr]
    ELSE [token |-> 0, err |-> Error("token", "", outcome)]

\* getAccessToken: the token the tenant issued, or an error
getAccessToken(outcome, issued) ==
    IF outcome = "ok" THEN [token |-> issued, err |-> NoErr]
    ELSE [token |-> 0, err |-> Error("token", "", outcome)]

\* mutant: the status of the list response is not checked
fetchAllConnections_IgnoreStatus(outcome) ==
    IF outcome \in {"ok", "non200"} THEN [connectionIds |-> Listing, err |-> NoErr]
    ELSE [connectionIds |-> <<>>, err |-> Error("list", "", outcome)]

\* mutant: the IDs a plan can name beyond the listing are iterated too
fetchAllConnections_WithUnlisted(outcome) ==
    IF outcome = "ok"
    THEN [connectionIds |-> Listing \o <<CHOOSE c \in Unlisted : TRUE>>, err |-> NoErr]
    ELSE [connectionIds |-> <<>>, err |-> Error("list", "", outcome)]

\* fetchAllConnections: the IDs of the listing, or an error
fetchAllConnections(outcome) ==
    IF outcome = "ok" THEN [connectionIds |-> Listing, err |-> NoErr]
    ELSE [connectionIds |-> <<>>, err |-> Error("list", "", outcome)]

\* mutant: a non-200 status is reported as an error
getConnectionClients_Non200Fails(remote, connectionId, outcome) ==
    CASE outcome = "ok" -> [clients |-> remote[connectionId], failed |-> FALSE]
      [] OTHER -> [clients |-> <<>>, failed |-> TRUE]

\* getConnectionClients: the list read, an empty list for a non-200
\* status, an error for a transport or decode failure
getConnectionClients(remote, connectionId, outcome) ==
    CASE outcome = "ok" -> [clients |-> remote[connectionId], failed |-> FALSE]
      [] outcome = "non200" -> [clients |-> <<>>, failed |-> FALSE]
      [] OTHER -> [clients |-> <<>>, failed |-> TRUE]

\* mutant: the status of the PATCH response is not checked
updateConnectionClients_IgnoreStatus(connectionId, outcome) ==
    IF outcome \in {"ok", "non200"} THEN NoErr ELSE Error("update", connectionId, outcome)

\* updateConnectionClients: nil on 200, an error otherwise
updateConnectionClients(connectionId, outcome) ==
    IF outcome = "ok" THEN NoErr ELSE Error("update", connectionId, outcome)

\* mutant: the written connection is not recorded
RecordManaged_Drop(managed, connectionId) == managed

\* managedConnections = append(managedConnections, connectionId)
RecordManaged(managed, connectionId) == Append(managed, connectionId)

\* the tenant's handling of PATCH /connections/{id}: replace semantics on
\* success, no effect when the request fails
RemotePatch(remote, connectionId, body, outcome) ==
    IF outcome = "ok" THEN [remote EXCEPT ![connectionId] = body] ELSE remote

(* ------------------------------- state -------------------------------- *)
VARIABLES
    enabled_clients,     \* tenant: connection ID -> enabled_clients list
    tokens,              \* number of access tokens the tenant has issued
    application_id,      \* per instance: the application it manages
    tfstate,             \* per instance: Terraform state of the resource
    pc,                  \* per instance: the remote call it is about to make
    op,                  \* per instance: handler running ("" before the first)
    enabledSet,          \* per instance: desired connection IDs of the call
    accessToken,         \* per instance: bearer token of the call (0: none)
    allConnections,      \* per instance: the listing fetched by the call
    idx,                 \* per instance: loop position in allConnections
    newClients,          \* per instance: list about to be PATCHed
    managedConnections,  \* per instance: connections mutated so far / returned
    err,                 \* per instance: error returned by the last call
    pre,                 \* history: tenant state when the call started
    log,                 \* history: remote requests of the current call
    prevCall,            \* history: the call before the current one
    conn_names,          \* tenant: connection ID -> connection name
    ds                   \* the connections data source: position and outputs

vars == <<enabled_clients, tokens, application_id, tfstate, pc, op, enabledSet,
          accessToken, allConnections, idx, newClients, managedConnections,
          err, pre, log, prevCall, conn_names, ds>>

NoCall == [valid |-> FALSE, enabledSet |-> {}, err |-> NoErr, log |-> <<>>]

Request(req, conn, outcome, body, token) ==
    [req |-> req, conn |-> conn, outcome |-> outcome, body |-> body, token |-> token]

TenantStates == [Conns -> SeqsUpTo(Apps, MaxLen)]

\* connection names of the tenant
Names == {"n1", "n2"}
DefaultNames == [c \in Conns |-> IF c = "c1" THEN "n1" ELSE "n2"]

\* the data source before its Read: nothing requested, no state saved
NoDsState == [set |-> FALSE, id |-> "", connections |-> <<>>,
              connection_ids |-> <<>>, connection_map |-> <<>>]
DsIdle == [pc |-> "idle", accessToken |-> 0, log |-> <<>>, err |-> NoErr,
           state |-> NoDsState]

\* every resource instance before its first handler invocation
Idle ==
    /\ pc = [p \in Procs |-> "idle"]
    /\ op = [p \in Procs |-> ""]
    /\ enabledSet = [p \in Procs |-> {}]
    /\ accessToken = [p \in Procs |-> 0]
    /\ allConnections = [p \in Procs |-> <<>>]
    /\ idx = [p \in Procs |-> 0]
    /\ newClients = [p \in Procs |-> <<>>]
    /\ managedConnections = [p \in Procs |-> <<>>]
    /\ err = [p \in Procs |-> NoErr]
    /\ pre = [p \in Procs |-> enabled_clients]
    /\ log = [p \in Procs |-> <<>>]
    /\ prevCall = [p \in Procs |-> NoCall]

Init ==
    /\ enabled_clients \in TenantStates
    /\ tokens = 0
    /\ application_id \in [Procs -> Apps]
    /\ \A p \in Procs \ Sequential : application_id[p] = "app1"
    /\ tfstate \in [Procs -> {[exists |-> FALSE, managed_connection_ids |-> <<>>],
                              [exists |-> TRUE, managed_connection_ids |-> <<>>]}]
    /\ \A p \in Procs \ Sequential : ~tfstate[p].exists
    /\ Idle
    /\ conn_names = DefaultNames
    /\ ds = DsIdle

(* --------------------------- handler endings -------------------------- *)
\* the resource handlers never touch the tenant's connection names nor the
\* data source
DataSourceIdle == UNCHANGED <<conn_names, ds>>

\* mutant: the connections written so far are saved on an error too
ReturnError_SetsState(p, e) ==
    /\ err' = [err EXCEPT ![p] = e]
    /\ pc' = [pc EXCEPT ![p] = "idle"]
    /\ tfstate' = [tfstate EXCEPT ![p] =
          [exists |-> TRUE, managed_connection_ids |-> managedConnections[p]]]
    /\ UNCHANGED <<managedConnections, idx>>

\* the handler returns with an error diagnostic: Terraform state is not set
ReturnError(p, e) ==
    /\ err' = [err EXCEPT ![p] = e]
    /\ managedConnections' = [managedConnections EXCEPT ![p] = <<>>]
    /\ pc' = [pc EXCEPT ![p] = "idle"]
    /\ UNCHANGED <<tfstate, idx>>

\* applyConnectionState returned managed without error; the handler saves
\* the state (Create, Update) or the resource is removed from it (Delete)
ReturnOk(p, managed) ==
    /\ err' = [err EXCEPT ![p] = NoErr]
    /\ managedConnections' = [managedConnections EXCEPT ![p] = managed]
    /\ pc' = [pc EXCEPT ![p] = "idle"]
    /\ tfstate' = [tfstate EXCEPT ![p] =
          IF op[p] = "Delete"
          THEN [exists |-> FALSE, managed_connection_ids |-> <<>>]
          ELSE [exists |-> TRUE, managed_connection_ids |-> managed]]
    /\ UNCHANGED idx

\* end of one loop iteration over connections, on to the next connection
\* or out of the loop
NextConnection(p, connections, i, managed) ==
    IF i < Len(connections)
    THEN /\ idx' = [idx EXCEPT ![p] = i + 1]
         /\ managedConnections' = [managedConnections EXCEPT ![p] = managed]
         /\ pc' = [pc EXCEPT ![p] =
               IF op[p] = "Read" THEN "getCurrentConnectionState"
               ELSE "getConnectionClients"]
         /\ UNCHANGED <<err, tfstate>>
    ELSE ReturnOk(p, managed)

(* ------------------------------ actions ------------------------------- *)
\* the handler starts: locals are fresh, the history restarts
Invoke(p, o, ids) ==
    /\ op' = [op EXCEPT ![p] = o]
    /\ enabledSet' = [enabledSet EXCEPT ![p] = EnabledSet(ids)]
    /\ pc' = [pc EXCEPT ![p] = "getAccessToken"]
    /\ accessToken' = [accessToken EXCEPT ![p] = 0]
    /\ allConnections' = [allConnections EXCEPT ![p] = <<>>]
    /\ idx' = [idx EXCEPT ![p] = 0]
    /\ newClients' = [newClients EXCEPT ![p] = <<>>]
    /\ managedConnections' = [managedConnections EXCEPT ![p] = <<>>]
    /\ err' = [err EXCEPT ![p] = NoErr]
    /\ pre' = [pre EXCEPT ![p] = enabled_clients]
    /\ log' = [log EXCEPT ![p] = <<>>]
    /\ prevCall' = [prevCall EXCEPT ![p] =
          [valid |-> op[p] # "", enabledSet |-> enabledSet[p],
           err |-> err[p], log |-> log[p]]]
    /\ UNCHANGED <<enabled_clients, tokens, application_id, tfstate>>
    /\ DataSourceIdle

\* Terraform invokes Create (no state yet), Update or Delete (state exists)
\* with a plan; Delete passes the empty list to applyConnectionState
Start(p) ==
    /\ pc[p] = "idle"
    /\ op[p] = ""
    /\ \E o \in {"Create", "Update", "Delete"}, ids \in PlanLists :
          /\ IF tfstate[p].exists THEN o \in {"Update", "Delete"} ELSE o = "Create"
          /\ o = "Delete" => ids = <<>>
          /\ Invoke(p, o, ids)

\* POST /oauth/token
GetAccessToken(p) ==
    /\ pc[p] = "getAccessToken"
    /\ \E outcome \in HttpOutcomes :
          LET r == getAccessToken(outcome, tokens + 1) IN
          /\ log' = [log EXCEPT ![p] = Append(@, Request("POST token", "", outcome, <<>>, 0))]
          /\ tokens' = IF outcome = "ok" THEN tokens + 1 ELSE tokens
          /\ IF r.err # NoErr
             THEN /\ ReturnError(p, r.err)
                  /\ UNCHANGED accessToken
             ELSE /\ accessToken' = [accessToken EXCEPT ![p] = r.token]
                  /\ pc' = [pc EXCEPT ![p] = "fetchAllConnections"]
                  /\ UNCHANGED <<err, managedConnections, tfstate, idx>>
    /\ UNCHANGED <<enabled_clients, application_id, op, enabledSet,
                   allConnections, newClients, pre, prevCall>>
    /\ DataSourceIdle

\* GET /api/v2/connections, then entry into applyConnectionState
FetchAllConnections(p) ==
    /\ pc[p] = "fetchAllConnections"
    /\ \E outcome \in HttpOutcomes :
          LET r == fetchAllConnections(outcome) IN
          /\ log' = [log EXCEPT ![p] =
                Append(@, Request("GET list", "", outcome, <<>>, accessToken[p]))]
          /\ IF r.err # NoErr
             THEN /\ ReturnError(p, r.err)
                  /\ UNCHANGED allConnections
             ELSE /\ allConnections' = [allConnections EXCEPT ![p] = r.connectionIds]
                  /\ NextConnection(p, r.connectionIds, 0, <<>>)
    /\ UNCHANGED <<enabled_clients, tokens, application_id, op, enabledSet,
                   accessToken, newClients, pre, prevCall>>
    /\ DataSourceIdle

\* one loop iteration of applyConnectionState up to its write:
\* GET /api/v2/connections/{id}, rebuild the list, sort, compare
GetConnectionClients(p) ==
    /\ pc[p] = "getConnectionClients"
    /\ LET connectionId == allConnections[p][idx[p]] IN
       \E outcome \in HttpOutcomes :
          LET r == getConnectionClients(enabled_clients, connectionId, outcome)
              next == SortStrings(NewClients(r.clients, application_id[p],
                                             connectionId \in enabledSet[p]))
              current == SortStrings(r.clients)
          IN
          /\ log' = [log EXCEPT ![p] =
                Append(@, Request("GET", connectionId, outcome, r.clients, accessToken[p]))]
          /\ IF r.failed
             THEN /\ NextConnection(p, allConnections[p], idx[p], managedConnections[p])
                  /\ UNCHANGED newClients
             ELSE IF ~stringSlicesEqual(current, next)
             THEN /\ newClients' = [newClients EXCEPT ![p] = next]
                  /\ pc' = [pc EXCEPT ![p] = "updateConnectionClients"]
                  /\ UNCHANGED <<err, managedConnections, tfstate, idx>>
             ELSE /\ NextConnection(p, allConnections[p], idx[p], managedConnections[p])
                  /\ UNCHANGED newClients
    /\ UNCHANGED <<enabled_clients, tokens, application_id, op, enabledSet,
                   accessToken, allConnections, pre, prevCall>>
    /\ DataSourceIdle

\* the write of a loop iteration: PATCH /api/v2/connections/{id}
UpdateConnectionClients(p) ==
    /\ pc[p] = "updateConnectionClients"
    /\ LET connectionId == allConnections[p][idx[p]] IN
       \E outcome \in PatchOutcomes :
          LET e == updateConnectionClients(connectionId, outcome) IN
          /\ log' = [log EXCEPT ![p] =
                Append(@, Request("PATCH", connectionId, outcome, newClients[p], accessToken[p]))]
          /\ enabled_clients' = RemotePatch(enabled_clients, connectionId, newClients[p], outcome)
          /\ IF e # NoErr
             THEN ReturnError(p, e)
             ELSE NextConnection(p, allConnections[p], idx[p],
                                 RecordManaged(managedConnections[p], connectionId))
    /\ UNCHANGED <<tokens, application_id, op, enabledSet, accessToken,
                   allConnections, newClients, pre, prevCall>>
    /\ DataSourceIdle

Next ==
    \E p \in Sequential :
        \/ Start(p)
        \/ GetAccessToken(p)
        \/ FetchAllConnections(p)
        \/ GetConnectionClients(p)
        \/ UpdateConnectionClients(p)

Spec == Init /\ [][Next]_vars

\* the same configuration is applied a second time: the handler runs again
\* with the same application and the same enabled_connection_ids
Reapply(p) ==
    /\ pc[p] = "idle"
    /\ op[p] # ""
    /\ ~prevCall[p].valid
    /\ \E o \in {"Create", "Update", "Delete"}, ids \in PlanLists :
          /\ IF tfstate[p].exists THEN o \in {"Update", "Delete"} ELSE o = "Create"
          /\ o = "Delete" <=> op[p] = "Delete"
          /\ EnabledSet(ids) = enabledSet[p]
          /\ Invoke(p, o, ids)

NextTwice ==
    \E p \in Sequential :
        \/ Start(p)
        \/ Reapply(p)
        \/ GetAccessToken(p)
        \/ FetchAllConnections(p)
        \/ GetConnectionClients(p)
        \/ UpdateConnectionClients(p)

SpecTwice == Init /\ [][NextTwice]_vars

(* --------------------------- resource Read ---------------------------- *)
\* mutant: no break, the connection is appended once per occurrence
EnabledConnections_NoBreak(enabledConnections, connectionId, clients, applicationId) ==
    enabledConnections \o [i \in 1..Count(applicationId, clients) |-> connectionId]

\* the inner loop of getCurrentConnectionState: the connection is appended
\* at the first client equal to the application, then the loop breaks
EnabledConnections(enabledConnections, connectionId, clients, applicationId) ==
    IF \E i \in 1..Len(clients) : clients[i] = applicationId
    THEN Append(enabledConnections, connectionId)
    ELSE enabledConnections

\* Terraform refreshes the resource: Read, on the state a Create or Update
\* saved or on a state that existed before
StartRead(p) ==
    /\ pc[p] = "idle"
    /\ tfstate[p].exists
    /\ op[p] \in {"", "Create", "Update"}
    /\ ~prevCall[p].valid
    /\ Invoke(p, "Read", <<>>)

\* one iteration of getCurrentConnectionState:
\* GET /api/v2/connections/{id}, then the search for the application
GetCurrentConnectionState(p) ==
    /\ pc[p] = "getCurrentConnectionState"
    /\ LET connectionId == allConnections[p][idx[p]] IN
       \E outcome \in HttpOutcomes :
          LET r == getConnectionClients(enabled_clients, connectionId, outcome) IN
          /\ log' = [log EXCEPT ![p] =
                Append(@, Request("GET", connectionId, outcome, r.clients, accessToken[p]))]
          /\ IF r.failed
             THEN NextConnection(p, allConnections[p], idx[p], managedConnections[p])
             ELSE NextConnection(p, allConnections[p], idx[p],
                     EnabledConnections(managedConnections[p], connectionId,
                                        r.clients, application_id[p]))
    /\ UNCHANGED <<enabled_clients, tokens, application_id, op, enabledSet,
                   accessToken, allConnections, newClients, pre, prevCall>>
    /\ DataSourceIdle

NextRead ==
    \E p \in Sequential :
        \/ Start(p)
        \/ StartRead(p)
        \/ GetAccessToken(p)
        \/ FetchAllConnections(p)
        \/ GetConnectionClients(p)
        \/ UpdateConnectionClients(p)
        \/ GetCurrentConnectionState(p)

SpecRead == Init /\ [][NextRead]_vars

(* ------------------- data source: connections (Read) ------------------ *)
\* the connection records the list GET returns, in listing order
ListedConnections(names) ==
    [i \in 1..Len(Listing) |->
        [id |-> Listing[i], name |-> names[Listing[i]], strategy |-> "auth0",
         display_name |-> names[Listing[i]], enabled |-> TRUE]]

\* fetchConnections: the records of the listing, or an error
fetchConnections(names, outcome) ==
    IF outcome = "ok" THEN [connections |-> ListedConnections(names), err |-> NoErr]
    ELSE [connections |-> <<>>, err |-> Error("list", "", outcome)]

\* connectionModels: one ConnectionModel per record, in order
ConnectionModels(connections) ==
    [i \in 1..Len(connections) |->
        [id |-> connections[i].id, name |-> connections[i].name,
         strategy |-> connections[i].strategy,
         display_name |-> connections[i].display_name,
         enabled |-> connections[i].enabled]]

\* mutant: the name is appended instead of the ID
ConnectionIds_Names(connections) == [i \in 1..Len(connections) |-> connections[i].name]

\* connectionIds: the ID of every record, in order
ConnectionIds(connections) == [i \in 1..Len(connections) |-> connections[i].id]

RECURSIVE ConnectionMap(_)
\* connectionMap[conn.Name] = conn.Id for every record in order: a later
\* record replaces an earlier one of the same name
ConnectionMap(connections) ==
    IF connections = <<>> THEN <<>>
    ELSE LET n == Len(connections)
             m == ConnectionMap(SubSeq(connections, 1, n - 1))
             last == connections[n]
         IN  [k \in DOMAIN m \cup {last.name} |->
                 IF k = last.name THEN last.id ELSE m[k]]

\* the data source handler never touches the tenant's connections nor the
\* resource instances
ResourcesIdle ==
    UNCHANGED <<enabled_clients, conn_names, application_id, tfstate, pc, op,
                enabledSet, accessToken, allConnections, idx, newClients,
                managedConnections, err, pre, log, prevCall>>

\* Terraform invokes the data source's Read
DsRead ==
    /\ ds.pc = "idle"
    /\ ds' = [ds EXCEPT !.pc = "getAccessToken"]
    /\ UNCHANGED tokens
    /\ ResourcesIdle

\* POST /oauth/token
DsGetAccessToken ==
    /\ ds.pc = "getAccessToken"
    /\ \E outcome \in HttpOutcomes :
          LET entry == Request("POST token", "", outcome, <<>>, 0) IN
          /\ tokens' = IF outcome = "ok" THEN tokens + 1 ELSE tokens
          /\ ds' = IF outcome = "ok"
                   THEN [ds EXCEPT !.pc = "fetchConnections",
                                   !.accessToken = tokens + 1,
                                   !.log = Append(@, entry)]
                   ELSE [ds EXCEPT !.pc = "done",
                                   !.err = Error("token", "", outcome),
                                   !.log = Append(@, entry)]
    /\ ResourcesIdle

\* GET /api/v2/connections, the three projections, State.Set
DsFetchConnections ==
    /\ ds.pc = "fetchConnections"
    /\ \E outcome \in HttpOutcomes :
          LET r == fetchConnections(conn_names, outcome)
              entry == Request("GET list", "", outcome, <<>>, ds.accessToken)
          IN
          ds' = IF r.err # NoErr
                THEN [ds EXCEPT !.pc = "done", !.err = r.err,
                                !.log = Append(@, entry)]
                ELSE [ds EXCEPT !.pc = "done",
                                !.log = Append(@, entry),
                                !.state = [set |-> TRUE,
                                           id |-> "auth0-connections",
                                           connections |-> ConnectionModels(r.connections),
                                           connection_ids |-> ConnectionIds(r.connections),
                                           connection_map |-> ConnectionMap(r.connections)]]
    /\ UNCHANGED tokens
    /\ ResourcesIdle

InitData ==
    /\ enabled_clients \in TenantStates
    /\ tokens = 0
    /\ application_id = [p \in Procs |-> "app1"]
    /\ tfstate = [p \in Procs |-> [exists |-> FALSE, managed_connection_ids |-> <<>>]]
    /\ Idle
    /\ conn_names \in [Conns -> Names]
    /\ ds = DsIdle

NextData ==
    \/ DsRead
    \/ DsGetAccessToken
    \/ DsFetchConnections

SpecData == InitData /\ [][NextData]_vars

(* ---------------------- concurrent reconciliations -------------------- *)
\* the plans of two racing Creates: every set of listed connections, in
\* listing order
RacePlans == {SelectSeq(Listing, LAMBDA c : c \in W) : W \in SUBSET Conns}

\* the tenants two racing calls start from: every connection holds a set of
\* applications, each once, in ascending order
RaceTenants ==
    LET ids == SortStrings(CHOOSE q \in [1..Cardinality(Apps) -> Apps] : Range(q) = Apps)
    IN  [Conns -> {SelectSeq(ids, LAMBDA a : a \in S) : S \in SUBSET Apps}]

\* two resource instances without state yet, for the same application or
\* for two different ones, on one tenant
InitRace ==
    /\ enabled_clients \in RaceTenants
    /\ tokens = 0
    /\ application_id \in [Procs -> Apps]
    /\ \A p \in Sequential : application_id[p] = "app1"
    /\ tfstate = [p \in Procs |-> [exists |-> FALSE, managed_connection_ids |-> <<>>]]
    /\ Idle
    /\ conn_names = DefaultNames
    /\ ds = DsIdle

\* Terraform invokes Create on one of the instances
StartRace(p) ==
    /\ pc[p] = "idle"
    /\ op[p] = ""
    /\ \E ids \in RacePlans : Invoke(p, "Create", ids)

\* the handlers of the two instances run in separate provider processes:
\* their remote calls interleave in any order
NextRace ==
    \E p \in Procs :
        \/ StartRace(p)
        \/ GetAccessToken(p)
        \/ FetchAllConnections(p)
        \/ GetConnectionClients(p)
        \/ UpdateConnectionClients(p)

SpecRace == InitRace /\ [][NextRace]_vars

(* ------------------------- reading the history ------------------------ *)
\* the last handler invocation of p has returned
Returned(p) == pc[p] = "idle" /\ op[p] # ""
ReturnedOk(p) == Returned(p) /\ err[p] = NoErr
\* positions in a request log of the requests of one kind to one connection
Requests(l, req, c) == {i \in 1..Len(l) : l[i].req = req /\ l[i].conn = c}
\* the single-connection read of c answered 200 with a decodable body
ReadOk(l, c) == \E i \in Requests(l, "GET", c) : l[i].outcome = "ok"
\* the single-connection read of c was issued and did not succeed
ReadFailed(l, c) == \E i \in Requests(l, "GET", c) : l[i].outcome # "ok"
\* a PATCH of c was issued / was issued and succeeded
Patched(l, c) == Requests(l, "PATCH", c) # {}
PatchedOk(l, c) == \E i \in Requests(l, "PATCH", c) : l[i].outcome = "ok"
Member(a, c) == a \in Range(enabled_clients[c])
MemberBefore(p, a, c) == a \in Range(pre[p][c])

C2_NonInterference ==
    \A p \in Sequential : \A c \in Conns : \A other \in Apps \ {application_id[p]} :
        Member(other, c) <=> MemberBefore(p, other, c)

C4_MinimalWrites ==
    \A p \in Sequential : \A i \in 1..Len(log[p]) :
        log[p][i].req = "PATCH" =>
            ~SameMultiset(log[p][i].body, pre[p][log[p][i].conn])

C6_WriteFailureAborts ==
    \A p \in Sequential : \A i \in 1..Len(log[p]) :
        (log[p][i].req = "PATCH" /\ log[p][i].outcome # "ok") =>
            /\ i = Len(log[p])
            /\ Returned(p)
            /\ err[p] = Error("update", log[p][i].conn, log[p][i].outcome)
            /\ \A j \in 1..(i - 1) :
                  (log[p][j].req = "PATCH" /\ log[p][j].outcome = "ok") =>
                      enabled_clients[log[p][j].conn] = log[p][j].body

C6_Witness ==
    \E p \in Sequential : \E i, j \in 1..Len(log[p]) :
        /\ j < i
        /\ log[p][j].req = "PATCH" /\ log[p][j].outcome = "ok"
        /\ log[p][i].req = "PATCH" /\ log[p][i].outcome # "ok"
        /\ enabled_clients[log[p][j].conn] # pre[p][log[p][j].conn]
        /\ Returned(p) /\ err[p].conn = log[p][i].conn

(* ------------------------------- C7 ----------------------------------- *)
\* C7: a connection whose single-connection read failed (non-200,
\* transport error or decode error) is never PATCHed in that call and
\* never recorded as managed.
C7_UnreadableNeverWritten ==
    \A p \in Sequential : \A c \in Conns :
        ReadFailed(log[p], c) =>
            /\ ~Patched(log[p], c)
            /\ c \notin Range(managedConnections[p])

(* ------------------------------- C8 ----------------------------------- *)
\* C8: when the token request or the list request fails, the handler
\* reports an error, issues no read and no PATCH of any connection, and the
\* tenant is as it was when the handler started.
C8_AbortBeforeAnyWrite ==
    \A p \in Sequential : \A i \in 1..Len(log[p]) :
        (log[p][i].req \in {"POST token", "GET list"} /\ log[p][i].outcome # "ok") =>
            /\ i = Len(log[p])
            /\ Returned(p)
            /\ err[p] # NoErr
            /\ err[p].cause = log[p][i].outcome
            /\ \A j \in 1..Len(log[p]) : log[p][j].req \notin {"GET", "PATCH"}
            /\ enabled_clients = pre[p]

C8_Witness ==
    \E p \in Sequential :
        /\ Returned(p) /\ err[p].step = "list"
        /\ Len(log[p]) = 2
        /\ log[p][2].req = "GET list" /\ log[p][2].outcome = "non200"
        /\ \E c \in Conns : Member(application_id[p], c) /\ c \notin enabledSet[p]

(* ------------------------------- C9 ----------------------------------- *)
\* C9: when applyConnectionState returns without error, the managed list
\* is exactly the connections PATCHed successfully in the call, in listing
\* order; with c1 = [app2], c2 = [app1, app2], reconciling app1 with
\* want = {c1} returns [c1, c2], c1 holds app2 and app1, c2 equals [app2].
C9_Example(p) ==
    /\ pre[p] = [c \in Conns |-> IF c = "c1" THEN <<"app2">> ELSE <<"app1", "app2">>]
    /\ application_id[p] = "app1"
    /\ enabledSet[p] = {"c1"}
    /\ \A c \in Conns : ReadOk(log[p], c)

C9_ManagedListExact ==
    \A p \in Sequential : ReturnedOk(p) =>
        /\ managedConnections[p] =
              SelectSeq(allConnections[p], LAMBDA c : PatchedOk(log[p], c))
        /\ C9_Example(p) =>
              /\ managedConnections[p] = <<"c1", "c2">>
              /\ Range(enabled_clients["c1"]) = {"app1", "app2"}
              /\ Len(enabled_clients["c1"]) = 2
              /\ enabled_clients["c2"] = <<"app2">>

C9_Witness ==
    \E p \in Sequential :
        /\ ReturnedOk(p)
        /\ C9_Example(p)
        /\ managedConnections[p] = <<"c1", "c2">>

(* ------------------------------- C10 ---------------------------------- *)
\* C10 (as stated): after any reconciliation call no connection's
\* enabled_clients holds an application ID more than once.
C10_NoDuplicates ==
    \A p \in Sequential : ReturnedOk(p) =>
        \A c \in Conns : \A a \in Apps : Count(a, enabled_clients[c]) <= 1

\* C10 (amended): a reconciliation call never introduces a duplicate: an
\* application ID is in enabled_clients(c) more than once after the call
\* only if it was there the same number of times before the call.
C10_NoNewDuplicates ==
    \A p \in Sequential : \A c \in Conns : \A a \in Apps :
        Count(a, enabled_clients[c]) > 1 =>
            Count(a, enabled_clients[c]) = Count(a, pre[p][c])

C10_Witness ==
    \E p \in Sequential : \E c \in Conns : \E other \in Apps \ {application_id[p]} :
        /\ ReturnedOk(p)
        /\ PatchedOk(log[p], c)
        /\ Count(other, enabled_clients[c]) = 2
        /\ Member(application_id[p], c)
        /\ ~MemberBefore(p, application_id[p], c)

(* ------------------------------- C11 ---------------------------------- *)
\* C11: the data source Read issues only the token POST and the list GET,
\* never a PATCH, and leaves every connection as it was; connection_ids[i]
\* is connections[i].id for every i, and connection_map maps the name of
\* every listed connection to the ID of a listed connection of that name.
C11_DataSourcePureProjection ==
    /\ \A i \in 1..Len(ds.log) : ds.log[i].req \in {"POST token", "GET list"}
    /\ \A p \in Procs : enabled_clients = pre[p]
    /\ ds.state.set =>
          LET connections == ds.state.connections
              ids == ds.state.connection_ids
              map == ds.state.connection_map
          IN  /\ Len(connections) = Len(Listing)
              /\ Len(ids) = Len(connections)
              /\ \A i \in 1..Len(connections) :
                    /\ connections[i].id = Listing[i]
                    /\ connections[i].name = conn_names[Listing[i]]
                    /\ ids[i] = connections[i].id
                    /\ connections[i].name \in DOMAIN map
                    /\ \E j \in 1..Len(connections) :
                          /\ connections[j].name = connections[i].name
                          /\ map[connections[i].name] = connections[j].id
              /\ DOMAIN map = {connections[i].name : i \in 1..Len(connections)}

C11_Witness ==
    /\ ds.pc = "done" /\ ds.state.set
    /\ Len(ds.log) = 2
    /\ ds.state.connection_ids = Listing
    /\ conn_names["c1"] = conn_names["c2"]
    /\ ds.state.connection_map[conn_names["c1"]] = "c2"
    /\ \E c \in Conns : enabled_clients[c] # <<>>

(* ------------------------------- C12 ---------------------------------- *)
\* the request at position i of p's log ended the call with an error
Fatal(p, i) ==
    /\ i = Len(log[p])
    /\ Returned(p)
    /\ err[p] # NoErr
    /\ err[p].cause = log[p][i].outcome

\* C12 (as stated): every failure of a remote call ends the call with an
\* error, except a non-200 status of the single-connection read.
C12_OnlyReadStatusTolerated ==
    \A p \in Sequential : \A i \in 1..Len(log[p]) :
        (/\ log[p][i].outcome # "ok"
         /\ ~(log[p][i].req = "GET" /\ log[p][i].outcome = "non200")) => Fatal(p, i)

\* C12 (amended): every failure (transport, non-200, decode) of the token
\* request, the list request and the write ends the call with an error;
\* every failure of the single-connection read, transport and decode
\* errors included, is tolerated and the call continues.
C12_ErrorTaxonomy ==
    \A p \in Sequential : \A i \in 1..Len(log[p]) :
        log[p][i].outcome # "ok" =>
            IF log[p][i].req = "GET"
            THEN /\ ~(i = Len(log[p]) /\ Returned(p) /\ err[p] # NoErr)
                 /\ err[p].step # "get"
            ELSE /\ Fatal(p, i)
                 /\ err[p].step = (CASE log[p][i].req = "POST token" -> "token"
                                     [] log[p][i].req = "GET list" -> "list"
                                     [] OTHER -> "update")

C12_Witness ==
    \E p \in Sequential : \E i, j \in 1..Len(log[p]) :
        /\ i < j
        /\ log[p][i].req = "GET" /\ log[p][i].outcome = "decode"
        /\ log[p][j].req = "PATCH" /\ log[p][j].outcome = "ok"
        /\ ReturnedOk(p)

(* ------------------------------- C13 ---------------------------------- *)
\* the PATCH requests of p's log, by position
Patches(p) == {i \in 1..Len(log[p]) : log[p][i].req = "PATCH"}
\* the list the read before the PATCH at position i returned
ListRead(p, i) == log[p][i - 1].body
IsSorted(s) == \A i, j \in 1..Len(s) : i < j => ~StringLess(s[j], s[i])

\* C13 (as stated): the list sent in a PATCH of c is the unsorted next: the
\* other applications' IDs in the order the read returned them, followed by
\* app when c is in want.
C13_PatchSendsUnsortedNext ==
    \A p \in Sequential : \A i \in Patches(p) :
        log[p][i].body =
            SelectSeq(ListRead(p, i), LAMBDA a : a # application_id[p])
                \o (IF log[p][i].conn \in enabledSet[p]
                    THEN <<application_id[p]>> ELSE <<>>)

\* C13 (amended): the list sent in a PATCH of c is next sorted in ascending
\* order: the other applications' IDs as many times as the read returned
\* them, and app once when c is in want, whatever order the read returned.
C13_PatchSendsSortedNext ==
    \A p \in Sequential : \A i \in Patches(p) :
        /\ log[p][i - 1].req = "GET"
        /\ log[p][i - 1].conn = log[p][i].conn
        /\ IsSorted(log[p][i].body)
        /\ \A a \in Apps \ {application_id[p]} :
              Count(a, log[p][i].body) = Count(a, ListRead(p, i))
        /\ Count(application_id[p], log[p][i].body) =
              (IF log[p][i].conn \in enabledSet[p] THEN 1 ELSE 0)

C13_Witness ==
    \E p \in Sequential : \E i \in Patches(p) :
        /\ log[p][i].outcome = "ok"
        /\ ListRead(p, i) = <<"app2">>
        /\ application_id[p] = "app1"
        /\ log[p][i].body = <<"app1", "app2">>
        /\ enabled_clients[log[p][i].conn] = <<"app1", "app2">>

(* ------------------------------- C14 ---------------------------------- *)
\* position of a listed connection in the listing
Pos(c) == CHOOSE k \in 1..Len(Listing) : Listing[k] = c
\* app's membership on c differed from the desired one when the call began
NeedsChange(p, c) == MemberBefore(p, application_id[p], c) # (c \in enabledSet[p])

\* C14: a non-200 answer to the read of c is taken as an empty list without
\* error: the call goes on with the PATCH of c (c in want) or with the read
\* of the next connection, only a failed write can still end it with an
\* error, and when it returns without error every connection after c was
\* read and, if read and in need of a change, written.
C14_Non200ReadDegrades ==
    \A p \in Sequential : \A i \in 1..Len(log[p]) :
        (log[p][i].req = "GET" /\ log[p][i].outcome = "non200") =>
            LET c == log[p][i].conn IN
            /\ log[p][i].body = <<>>
            /\ ~(i = Len(log[p]) /\ Returned(p) /\ err[p] # NoErr)
            /\ (Returned(p) /\ err[p] # NoErr) => err[p].step = "update"
            /\ i < Len(log[p]) =>
                  IF c \in enabledSet[p]
                  THEN /\ log[p][i + 1].req = "PATCH"
                       /\ log[p][i + 1].conn = c
                       /\ log[p][i + 1].body = <<application_id[p]>>
                  ELSE /\ log[p][i + 1].req = "GET"
                       /\ log[p][i + 1].conn = Listing[Pos(c) + 1]
            /\ ReturnedOk(p) =>
                  \A d \in Conns : Pos(d) > Pos(c) =>
                      /\ Requests(log[p], "GET", d) # {}
                      /\ (ReadOk(log[p], d) /\ NeedsChange(p, d)) => PatchedOk(log[p], d)

C14_Witness ==
    \E p \in Sequential :
        /\ ReturnedOk(p)
        /\ log[p][3].req = "GET" /\ log[p][3].conn = "c1" /\ log[p][3].outcome = "non200"
        /\ "c1" \notin enabledSet[p]
        /\ ReadOk(log[p], "c2") /\ NeedsChange(p, "c2") /\ PatchedOk(log[p], "c2")
        /\ managedConnections[p] = <<"c2">>

(* ------------------------------- C15 ---------------------------------- *)
\* the connections p's call has read, in the order of the reads
ReadOrder(p) ==
    LET gets == SelectSeq(log[p], LAMBDA e : e.req = "GET")
    IN  [k \in 1..Len(gets) |-> gets[k].conn]

\* C15: a Create, Update or Delete issues one token POST, then one list
\* GET, then for each connection in listing order one read, followed at
\* once by at most one PATCH of that connection; every request after the
\* POST carries the token that POST obtained, which no earlier call used.
C15_RemoteCallOrder ==
    \A p \in Sequential :
        LET l == log[p] IN
        /\ \A i \in 1..Len(l) : (i = 1) <=> (l[i].req = "POST token")
        /\ \A i \in 1..Len(l) : (i = 2) <=> (l[i].req = "GET list")
        /\ \A i \in 2..Len(l) : l[i - 1].outcome = "ok" \/ l[i - 1].req \in {"GET", "PATCH"}
        /\ \A i \in 3..Len(l) : l[i].req \in {"GET", "PATCH"}
        /\ ReadOrder(p) = SubSeq(Listing, 1, Len(ReadOrder(p)))
        /\ ReturnedOk(p) => ReadOrder(p) = Listing
        /\ \A i \in 1..Len(l) : l[i].req = "PATCH" =>
              /\ l[i - 1].req = "GET"
              /\ l[i - 1].conn = l[i].conn
        /\ \A c \in Conns : Cardinality(Requests(l, "GET", c)) <= 1
        /\ \A c \in Conns : Cardinality(Requests(l, "PATCH", c)) <= 1
        /\ \A i \in 2..Len(l) :
              /\ l[i].token = accessToken[p]
              /\ l[i].token = tokens
              /\ \A j \in 1..Len(prevCall[p].log) : prevCall[p].log[j].token # l[i].token

C15_Witness ==
    \E p \in Sequential :
        /\ prevCall[p].valid
        /\ Len(prevCall[p].log) >= 2
        /\ ReturnedOk(p)
        /\ Len(log[p]) = 2 + 2 * Len(Listing)
        /\ ReadOrder(p) = Listing
        /\ managedConnections[p] = Listing

(* ------------------------------- C16 ---------------------------------- *)
\* C16: every PATCH carries each application other than app as many times
\* as the read of the connection returned it, a successful write after a
\* successful read leaves those multiplicities on the tenant as they were,
\* and a successfully read connection that holds app exactly as often as
\* desired (once if wanted, not at all otherwise) is not written, whatever
\* duplicates of other applications it holds.
C16_DuplicatesPropagate ==
    \A p \in Sequential : \A c \in Conns :
        LET app == application_id[p]
            others == Apps \ {app}
        IN
        /\ \A i \in Requests(log[p], "PATCH", c) : \A a \in others :
              Count(a, log[p][i].body) = Count(a, ListRead(p, i))
        /\ (ReadOk(log[p], c) /\ PatchedOk(log[p], c)) =>
              \A a \in others : Count(a, enabled_clients[c]) = Count(a, pre[p][c])
        /\ (/\ ReadOk(log[p], c)
            /\ Count(app, pre[p][c]) = (IF c \in enabledSet[p] THEN 1 ELSE 0))
              => ~Patched(log[p], c)

C16_Witness ==
    \E p \in Sequential : \E c, d \in Conns : \E a \in Apps \ {application_id[p]} :
        /\ c # d
        /\ ReturnedOk(p)
        /\ ReadOk(log[p], c) /\ ReadOk(log[p], d)
        /\ Count(a, pre[p][c]) = 2 /\ Count(a, pre[p][d]) = 2
        /\ PatchedOk(log[p], c)
        /\ Count(a, enabled_clients[c]) = 2
        /\ Member(application_id[p], c)
        /\ ~Patched(log[p], d)
        /\ enabled_clients[d] = pre[p][d]

(* ------------------------------- C19 ---------------------------------- *)
\* the call before p's current one was a reconciliation that returned
\* without error
AfterReconciliation(p) == prevCall[p].valid /\ prevCall[p].err = NoErr
\* what a Read of p that returned without error saved as managed_connection_ids
ReadRefreshed(p) ==
    /\ tfstate[p].exists
    /\ tfstate[p].managed_connection_ids =
          SelectSeq(Listing, LAMBDA c : ReadOk(log[p], c) /\ Member(application_id[p], c))

WriteFailsAfterWrites(p) ==
    /\ pc[p] = "updateConnectionClients"
    /\ managedConnections[p] # <<>>
    /\ pc'[p] = "idle"
    /\ err'[p] # NoErr

\* C20: when a PATCH fails after earlier connections of the call were
\* written, no managed connection ID is returned and Terraform state is
\* left as it was before the call, although the tenant holds the earlier
\* writes: each written connection carries the list sent, which differs
\* from its list at the start of the call if its read had succeeded.
C20_PartialWritesUnreported ==
    [][\A p \in Sequential : WriteFailsAfterWrites(p) =>
          /\ err'[p].step = "update"
          /\ managedConnections'[p] = <<>>
          /\ tfstate'[p] = tfstate[p]
          /\ enabled_clients' = enabled_clients
          /\ \A c \in Range(managedConnections[p]) :
                /\ \E i \in Requests(log[p], "PATCH", c) :
                      /\ log[p][i].outcome = "ok"
                      /\ enabled_clients'[c] = log[p][i].body
                /\ ReadOk(log[p], c) => enabled_clients'[c] # pre[p][c]]_vars

\* a second call fails at a PATCH after a successful one: Terraform state
\* still holds the list the first call saved
C20_Witness ==
    \E p \in Sequential : \E c \in Conns :
        /\ Returned(p)
        /\ err[p].step = "update"
        /\ prevCall[p].valid
        /\ ReadOk(log[p], c) /\ PatchedOk(log[p], c)
        /\ enabled_clients[c] # pre[p][c]
        /\ managedConnections[p] = <<>>
        /\ tfstate[p].exists
        /\ tfstate[p].managed_connection_ids # <<>>
        /\ c \notin Range(tfstate[p].managed_connection_ids)

(* ------------------------------- C17 ---------------------------------- *)
SameApplication == \A p, q \in Procs : application_id[p] = application_id[q]
BothReturnedOk == \A p \in Procs : ReturnedOk(p)
\* every single-connection read of both calls was answered with the list
AllReadsOk == \A p \in Procs : \A c \in Conns : ReadOk(log[p], c)
\* the application's membership matches the desired set of neither call
MatchesNeither ==
    \A p \in Procs : \E c \in Conns :
        Member(application_id[p], c) # (c \in enabledSet[p])
\* c holds application a more or less often than when p's call began
Clobbered(p, c, a) == Count(a, enabled_clients[c]) # Count(a, pre[p][c])
\* a call wrote c after a non-200 answer to its read of c
WrittenUnread(c) ==
    \E q \in Procs : \E i \in Requests(log[q], "PATCH", c) :
        /\ log[q][i].outcome = "ok"
        /\ log[q][i - 1].outcome = "non200"

StaleWrite(p, i) ==
    /\ log[p][i].req = "PATCH"
    /\ \E q \in Procs \ {p} : \E j \in Requests(log[q], "PATCH", log[p][i].conn) :
          /\ log[q][j].outcome = "ok"
          /\ log[q][j].body # ListRead(p, i)
          /\ log[q][j - 1].body = ListRead(p, i)

\* C18: with two applications reconciled concurrently, every PATCH carries
\* the clients its call read from the connection (minus its application,
\* plus it if wanted), in ascending order, whatever the other call wrote
\* since that read, and a connection written last by one call holds that
\* call's list as a whole.
C18_PatchCarriesOwnRead ==
    ~SameApplication =>
        \A p \in Procs : \A i \in Patches(p) :
            LET c == log[p][i].conn
                app == application_id[p]
            IN
            /\ log[p][i - 1].req = "GET" /\ log[p][i - 1].conn = c
            /\ IsSorted(log[p][i].body)
            /\ \A a \in Apps \ {app} : Count(a, log[p][i].body) = Count(a, ListRead(p, i))
            /\ Count(app, log[p][i].body) = (IF c \in enabledSet[p] THEN 1 ELSE 0)
            /\ (log[p][i].outcome = "ok" /\ enabled_clients[c] # log[p][i].body) =>
                  \E q \in Procs \ {p} : \E j \in Requests(log[q], "PATCH", c) :
                      /\ log[q][j].outcome = "ok"
                      /\ enabled_clients[c] = log[q][j].body

\* both calls returned without error, every read was answered, and the
\* application of one call is missing from a connection of its desired set
\* because the other call wrote the list it had read before
C18_Witness ==
    /\ ~SameApplication
    /\ BothReturnedOk
    /\ AllReadsOk
    /\ \E p \in Procs : \E c \in Conns :
          /\ c \in enabledSet[p]
          /\ PatchedOk(log[p], c)
          /\ ~Member(application_id[p], c)
          /\ \E q \in Procs \ {p} : \E i \in Patches(q) :
                log[q][i].conn = c /\ StaleWrite(q, i)

(* ------------------------------- C21 ---------------------------------- *)
\* the desired connection IDs of p's call the list GET did not return
WantUnlisted(p) == enabledSet[p] \ Conns

\* C21: a desired connection ID the list GET does not return is never
\* read, never written, never named in an error and never in the managed
\* list, returned or saved; every read and every PATCH is of a listed
\* connection, and a call in which no remote call failed returns without
\* error whatever unlisted IDs it desires.
C21_UnlistedIgnored ==
    \A p \in Sequential :
        /\ \A i \in 1..Len(log[p]) :
              /\ log[p][i].conn \notin WantUnlisted(p)
              /\ log[p][i].req \in {"GET", "PATCH"} => log[p][i].conn \in Conns
        /\ err[p].conn \notin WantUnlisted(p)
        /\ Range(managedConnections[p]) \subseteq Conns
        /\ Range(tfstate[p].managed_connection_ids) \subseteq Conns
        /\ Range(allConnections[p]) \subseteq Conns
        /\ (Returned(p) /\ \A i \in 1..Len(log[p]) : log[p][i].outcome = "ok")
              => err[p] = NoErr

\* a call that desires a listed and an unlisted connection returns without
\* error, having read every listed connection and written the desired one
C21_Witness ==
    \E p \in Sequential : \E c \in Conns :
        /\ WantUnlisted(p) # {}
        /\ c \in enabledSet[p]
        /\ ReturnedOk(p)
        /\ \A d \in Conns : ReadOk(log[p], d)
        /\ PatchedOk(log[p], c)
        /\ tfstate[p].managed_connection_ids = <<c>>

(* ------------------------------- C22 ---------------------------------- *)
\* the read of c by p's call returned the application more than once
AppReadSeveralTimes(p, c) ==
    \E i \in Requests(log[p], "GET", c) :
        /\ log[p][i].outcome = "ok"
        /\ Count(application_id[p], log[p][i].body) > 1

\* C22: every list sent in a PATCH holds the application once when the
\* connection is in want and not at all otherwise; a connection in want
\* whose read returned the application several times is written, and when
\* the call returns without error it is in the managed list and holds the
\* application once, a member as before.
C22_AppExactlyOnce ==
    \A p \in Sequential :
        LET app == application_id[p] IN
        /\ \A i \in Patches(p) :
              Count(app, log[p][i].body) =
                  (IF log[p][i].conn \in enabledSet[p] THEN 1 ELSE 0)
        /\ \A c \in Conns : (AppReadSeveralTimes(p, c) /\ c \in enabledSet[p]) =>
              /\ MemberBefore(p, app, c)
              /\ \/ Patched(log[p], c)
                 \/ pc[p] = "updateConnectionClients" /\ allConnections[p][idx[p]] = c
              /\ ReturnedOk(p) =>
                    /\ c \in Range(managedConnections[p])
                    /\ c \in Range(tfstate[p].managed_connection_ids)
                    /\ Count(app, enabled_clients[c]) = 1

C22_Witness ==
    \E p \in Sequential : \E c \in Conns :
        /\ AppReadSeveralTimes(p, c)
        /\ c \in enabledSet[p]
        /\ ReturnedOk(p)
        /\ PatchedOk(log[p], c)
        /\ managedConnections[p] = <<c>>
        /\ Count(application_id[p], pre[p][c]) = 2
        /\ Count(application_id[p], enabled_clients[c]) = 1

====
